---- MODULE Spec2Model ----
(***************************************************************************)
(* Contest registration and results management (src/app1.py): the          *)
(* relational store (Admin, Contest, Student, ContestSetting), the browser  *)
(* sessions, the in-memory failed-login table, and one action per route.   *)
(*                                                                         *)
(* Left out of the records: the display-only columns (Student.name,        *)
(* college, branch, graduation_year; Contest.date, test_time, syllabus),   *)
(* which no handler reads to decide anything.                              *)
(***************************************************************************)
EXTENDS Integers, Sequences, FiniteSets, TLC

\* ------------------------------------------------------------ bounds
MaxContests == 2       \* contest ids range over 1..MaxContests
MaxStudents == 2       \* student ids range over 1..MaxStudents
MaxAdmins   == 2       \* admin ids range over 1..MaxAdmins
MaxInflight == 1       \* registrations between their duplicate check and their commit
MaxTime     == 2       \* the clock runs over 0..MaxTime*TickStep seconds

\* --------------------------------------------------- program constants
ADMIN_REGISTRATION_CODE == "HRISHABHADMIN2025"
MAX_LOGIN_ATTEMPTS == 5
LOGIN_LOCKOUT_TIME == 300
RESET_TOKEN == "myUltraSecretResetToken123!"
MinPasswordLen == 6
TickStep == 150        \* seconds per clock step of the model

None == "None"         \* Python None / SQL NULL
\* browser sessions, each connecting from an IP address of its own
Clients == {"operator", "visitor"}

VARIABLES
    db_engine,               \* "sqlite" (default) or "postgresql" (DATABASE_URL set)
    admins,                  \* Admin table: id -> [username, password_hash]
    contests,                \* Contest table: id -> [name, is_active, publish_results]
    students,                \* Student table: id -> [email, contest_id, status, test_link, score]
    settings,                \* ContestSetting table: key -> value
    session,                 \* client -> the Flask session dict of that browser
    failed_login_attempts,   \* ip -> [attempts, timestamp]
    security_log,            \* ip -> [failed, last]: the *_FAILED events logged for ip
    now,                     \* wall clock, seconds
    inflight,                \* registrations that passed the duplicate check, not yet committed
    resp                     \* the last request handled and its response

vars == <<db_engine, admins, contests, students, settings, session,
          failed_login_attempts, security_log, now, inflight, resp>>

store == <<admins, contests, students, settings>>

\* ------------------------------------------------------------ helpers
Max(S) == IF S = {} THEN 0 ELSE CHOOSE x \in S : \A y \in S : y <= x

Min2(a, b) == IF a <= b THEN a ELSE b

\* SQLite INTEGER PRIMARY KEY without AUTOINCREMENT: max(rowid) + 1.  (A
\* PostgreSQL sequence differs only in never handing a deleted id out again.)
NextId(ids) == Max(ids) + 1

Remove(f, k) == [x \in DOMAIN f \ {k} |-> f[x]]

Put(f, k, v) == [x \in DOMAIN f \cup {k} |-> IF x = k THEN v ELSE f[x]]

\* werkzeug generate_password_hash / check_password_hash
generate_password_hash(password) == <<"pbkdf2", password>>

check_password_any(pwhash, password) == TRUE
check_password_hash(pwhash, password) == pwhash = <<"pbkdf2", password>>

\* A request and its response: the route, the client, the method, the id in
\* the URL (0: none), the submitted form, then the HTTP status, the redirect
\* target, the flashed message with its category, the uncaught exception, and the rows
\* of the body.
Response(route, c, method, id, form, status, location, cat, msg, body) ==
    [route |-> route, client |-> c, method |-> method, id |-> id, form |-> form,
     status |-> status, location |-> location, flash_cat |-> cat, flash |-> msg,
     exc |-> "", body |-> body]

Render(route, c, method, id, form) ==
    Response(route, c, method, id, form, 200, "", "none", "", <<>>)

RenderFlash(route, c, method, id, form, cat, msg) ==
    Response(route, c, method, id, form, 200, "", cat, msg, <<>>)

Redirect(route, c, method, id, form, location, cat, msg) ==
    Response(route, c, method, id, form, 302, location, cat, msg, <<>>)

\* abort(404) of get_or_404, and the 500 of an exception no handler catches
NotFound(route, c, method, id, form) ==
    Response(route, c, method, id, form, 404, "", "none", "", <<>>)

ServerError(route, c, method, id, form, exc) ==
    [Response(route, c, method, id, form, 500, "", "none", "", <<>>) EXCEPT !.exc = exc]

\* `if 'admin_id' not in session: return redirect(url_for('admin_login'))`
AdminGateOpen(c) == TRUE

AdminGate(c) == "admin_id" \in DOMAIN session[c]

ToLogin(route, c, method, id, form) ==
    Redirect(route, c, method, id, form, "admin_login", "none", "")

\* ------------------------------------------------------------ Init
DefaultAdmin == [username |-> "admin", password_hash |-> generate_password_hash("password")]

Init ==
    /\ db_engine \in {"sqlite", "postgresql"}
    /\ admins \in {<<>>, 1 :> DefaultAdmin}
    /\ contests = <<>>
    /\ students = <<>>
    /\ settings = <<>>
    /\ session = [c \in Clients |-> <<>>]
    /\ failed_login_attempts = <<>>
    /\ security_log = <<>>
    /\ now = 0
    /\ inflight = {}
    /\ resp = Render("index", "visitor", "GET", 0, <<>>)

\* ------------------------------------------------ login and lockout
\* `from datetime import datetime, time, date` (line 12) rebinds the name
\* `time` that `import time` (line 4) bound: time.time() is an attribute
\* lookup on the class datetime.time and raises AttributeError.
time_time_raises == TRUE

\* is_ip_locked_out: its return value ("raise": the exception of time.time())
\* and the table it leaves.
is_ip_locked_out(table, ip) ==
    IF ip \in DOMAIN table
    THEN IF table[ip].attempts >= MAX_LOGIN_ATTEMPTS
         THEN IF time_time_raises
              THEN [result |-> "raise", table |-> table]
              ELSE IF now - table[ip].timestamp < LOGIN_LOCKOUT_TIME
                   THEN [result |-> "True", table |-> table]
                   ELSE [result |-> "False", table |-> Remove(table, ip)]
         ELSE [result |-> "False", table |-> table]
    ELSE [result |-> "False", table |-> table]

\* record_failed_attempt: current_time = time.time() is its first statement.
record_failed_attempt(table, ip) ==
    IF time_time_raises
    THEN [result |-> "raise", table |-> table]
    ELSE [result |-> "ok",
          table |-> Put(table, ip,
                        [attempts |-> IF ip \in DOMAIN table
                                      THEN table[ip].attempts + 1 ELSE 1,
                         timestamp |-> now])]

\* log_security_event, kept as a summary per IP: how many LOGIN_FAILED and
\* REGISTRATION_FAILED events were logged for it since its last LOGIN_SUCCESS
\* (counted up to MAX_LOGIN_ATTEMPTS) and the time of the latest.
log_security_event(log, event_type, ip) ==
    IF event_type \in {"LOGIN_FAILED", "REGISTRATION_FAILED"}
    THEN Put(log, ip, [failed |-> Min2((IF ip \in DOMAIN log THEN log[ip].failed ELSE 0) + 1,
                                       MAX_LOGIN_ATTEMPTS),
                       last |-> now])
    ELSE IF event_type = "LOGIN_SUCCESS" THEN Remove(log, ip) ELSE log

AdminByUsername(username) == {i \in DOMAIN admins : admins[i].username = username}

\* The validation chain of the register action: the flash of the first check
\* that fails, "" when all pass.
RegistrationErrorNoCode(username, password, confirm_password, security_code) ==
    IF username = "" \/ password = "" THEN "Username and password are required."
    ELSE IF password # confirm_password THEN "Passwords do not match."
    ELSE IF Len(password) < MinPasswordLen
         THEN "Password must be at least 6 characters long."
    ELSE IF AdminByUsername(username) # {} THEN "Username already exists."
    ELSE ""

RegistrationError(username, password, confirm_password, security_code) ==
    IF username = "" \/ password = "" THEN "Username and password are required."
    ELSE IF password # confirm_password THEN "Passwords do not match."
    ELSE IF Len(password) < MinPasswordLen
         THEN "Password must be at least 6 characters long."
    ELSE IF AdminByUsername(username) # {} THEN "Username already exists."
    ELSE IF security_code = "" THEN "Security code is required for admin registration."
    ELSE IF security_code # ADMIN_REGISTRATION_CODE
         THEN "Invalid security code. Admin registration is restricted."
    ELSE ""

\* /admin/login, GET and POST.  form = <<action, username, password,
\* confirm_password, security_code>>.
admin_login(c, method, action, username, password, confirm_password, security_code) ==
    LET ip   == c
        form == <<action, username, password, confirm_password, security_code>>
        lock == is_ip_locked_out(failed_login_attempts, ip)
        who  == AdminByUsername(username)
        err  == RegistrationError(username, password, confirm_password, security_code)
        rec  == record_failed_attempt(lock.table, ip)
        R(status, location, cat, msg) ==
            Response("admin_login", c, method, 0, form, status, location, cat, msg, <<>>)
        Raise(cat, msg) == [R(500, "", cat, msg) EXCEPT !.exc = "AttributeError"]
    IN
    /\ UNCHANGED <<db_engine, contests, students, settings, now, inflight>>
    /\ IF "admin_id" \in DOMAIN session[c]
       THEN /\ resp' = R(302, "admin_dashboard", "none", "")
            /\ UNCHANGED <<admins, session, failed_login_attempts, security_log>>
       ELSE IF lock.result = "raise"
       THEN /\ resp' = Raise("none", "")
            /\ UNCHANGED <<admins, session, failed_login_attempts, security_log>>
       ELSE IF lock.result = "True"
       THEN /\ resp' = R(200, "", "error", "Too many failed attempts.")
            /\ UNCHANGED <<admins, session, failed_login_attempts, security_log>>
       ELSE IF method = "POST" /\ action = "login"
       THEN IF who # {} /\ check_password_hash(admins[CHOOSE i \in who : TRUE].password_hash,
                                                password)
            THEN /\ session' = [session EXCEPT ![c] =
                                    Put(@, "admin_id", CHOOSE i \in who : TRUE)]
                 /\ failed_login_attempts' = Remove(lock.table, ip)
                 /\ security_log' = log_security_event(security_log, "LOGIN_SUCCESS", ip)
                 /\ resp' = R(302, "admin_dashboard", "none", "")
                 /\ UNCHANGED admins
            ELSE /\ security_log' = log_security_event(security_log, "LOGIN_FAILED", ip)
                 /\ failed_login_attempts' = rec.table
                 /\ resp' = IF rec.result = "raise"
                            THEN Raise("none", "")
                            ELSE R(200, "", "error", "Invalid username or password.")
                 /\ UNCHANGED <<admins, session>>
       ELSE IF method = "POST" /\ action = "register"
       THEN IF err = ""
            THEN /\ NextId(DOMAIN admins) <= MaxAdmins
                 /\ admins' = Put(admins, NextId(DOMAIN admins),
                                  [username |-> username,
                                   password_hash |-> generate_password_hash(password)])
                 /\ failed_login_attempts' = lock.table
                 /\ resp' = R(302, "admin_login", "success", "Admin account created.")
                 /\ UNCHANGED <<session, security_log>>
            ELSE IF err = "Invalid security code. Admin registration is restricted."
            THEN /\ security_log' =
                        log_security_event(security_log, "REGISTRATION_FAILED", ip)
                 /\ failed_login_attempts' = rec.table
                 /\ resp' = IF rec.result = "raise"
                            THEN Raise("error", err)
                            ELSE R(200, "", "error", err)
                 /\ UNCHANGED <<admins, session>>
            ELSE /\ failed_login_attempts' = lock.table
                 /\ resp' = R(200, "", "error", err)
                 /\ UNCHANGED <<admins, session, security_log>>
       ELSE /\ failed_login_attempts' = lock.table
            /\ resp' = R(200, "", "none", "")
            /\ UNCHANGED <<admins, session, security_log>>

logout_keeps_admin(c) ==
    /\ session' = [session EXCEPT ![c] = Remove(@, "student_email")]
    /\ resp' = Redirect("logout", c, "GET", 0, <<>>, "index", "success",
                        "You have been logged out.")
    /\ UNCHANGED <<db_engine, store, failed_login_attempts, security_log, now, inflight>>

\* /logout
logout(c) ==
    /\ session' = [session EXCEPT ![c] = Remove(Remove(@, "admin_id"), "student_email")]
    /\ resp' = Redirect("logout", c, "GET", 0, <<>>, "index", "success",
                        "You have been logged out.")
    /\ UNCHANGED <<db_engine, store, failed_login_attempts, security_log, now, inflight>>

\* /reset_admin_password/<token>: no session check
reset_admin_password(c, token) ==
    LET who == AdminByUsername("admin")
        R(status) == Response("reset_admin_password", c, "GET", 0, <<token>>, status,
                              "", "none", "", <<>>)
    IN
    /\ UNCHANGED <<db_engine, contests, students, settings, session,
                   failed_login_attempts, security_log, now, inflight>>
    /\ IF token # RESET_TOKEN
       THEN resp' = R(403) /\ UNCHANGED admins
       ELSE /\ resp' = R(200)
            /\ admins' = IF who = {} THEN admins
                         ELSE [admins EXCEPT ![CHOOSE i \in who : TRUE].password_hash =
                                  generate_password_hash("newStrongPassword123")]

\* ------------------------------------------------------- the database
NoScore == -1          \* Student.score IS NULL (scores are digit strings: >= 0)

NewStudentAccepted(email, contest_id) ==
    [email |-> email, contest_id |-> contest_id, status |-> "Accepted",
     test_link |-> None, score |-> NoScore]

\* Column defaults of a new Student row: status 'Pending', no link, no score.
NewStudent(email, contest_id) ==
    [email |-> email, contest_id |-> contest_id, status |-> "Pending",
     test_link |-> None, score |-> NoScore]

\* UniqueConstraint('email', 'contest_id', name='_email_contest_uc')
UniqueConstraintOff(st) == TRUE

UniqueConstraint(st) ==
    \A i, j \in DOMAIN st :
        i # j => ~(st[i].email = st[j].email /\ st[i].contest_id = st[j].contest_id)

\* db.ForeignKey('contest.id'): PostgreSQL enforces it; SQLite does not unless
\* PRAGMA foreign_keys=ON is issued per connection, which the program never does.
ForeignKey(st, co) ==
    db_engine = "postgresql" => \A i \in DOMAIN st : st[i].contest_id \in DOMAIN co

\* db.session.commit() of a changed Student table: it goes through, or raises
\* IntegrityError and the request's changes are rolled back.
CommitOk(st, co) == UniqueConstraint(st) /\ ForeignKey(st, co)

\* Student.query.filter_by(email=email, contest_id=contest_id).first()
Registered(email, contest_id) ==
    \E i \in DOMAIN students :
        students[i].email = email /\ students[i].contest_id = contest_id

\* cascade="all, delete-orphan" of Contest.students: the rows deleted with a contest
CascadeNone(cid) == students

Cascade(cid) ==
    [i \in {j \in DOMAIN students : students[j].contest_id # cid} |-> students[i]]

\* ---------------------------------------------------------- contests
\* /admin/contests, GET and POST.  date_ok: request.form['date'] parses as
\* %Y-%m-%d (strptime raises ValueError otherwise).
admin_manage_contests(c, method, name, date_ok) ==
    LET form == <<name>>
        route == "admin_manage_contests"
    IN
    /\ UNCHANGED <<db_engine, admins, students, settings, session,
                   failed_login_attempts, security_log, now, inflight>>
    /\ IF ~AdminGate(c)
       THEN resp' = ToLogin(route, c, method, 0, form) /\ UNCHANGED contests
       ELSE IF method = "POST"
       THEN IF ~date_ok
            THEN /\ resp' = ServerError(route, c, method, 0, form, "ValueError")
                 /\ UNCHANGED contests
            ELSE /\ NextId(DOMAIN contests) <= MaxContests
                 /\ contests' = Put(contests, NextId(DOMAIN contests),
                                    [name |-> name, is_active |-> TRUE,
                                     publish_results |-> FALSE])
                 /\ resp' = Redirect(route, c, method, 0, form, "admin_manage_contests",
                                     "success", "Contest created successfully.")
       ELSE resp' = Render(route, c, method, 0, form) /\ UNCHANGED contests

\* /admin/contests/edit/<contest_id>, GET and POST
admin_edit_contest(c, method, cid, name, date_ok) ==
    LET form == <<name>>
        route == "admin_edit_contest"
    IN
    /\ UNCHANGED <<db_engine, admins, students, settings, session,
                   failed_login_attempts, security_log, now, inflight>>
    /\ IF ~AdminGate(c)
       THEN resp' = ToLogin(route, c, method, cid, form) /\ UNCHANGED contests
       ELSE IF cid \notin DOMAIN contests
       THEN resp' = NotFound(route, c, method, cid, form) /\ UNCHANGED contests
       ELSE IF method = "POST"
       THEN IF ~date_ok
            THEN /\ resp' = ServerError(route, c, method, cid, form, "ValueError")
                 /\ UNCHANGED contests
            ELSE /\ contests' = [contests EXCEPT ![cid].name = name]
                 /\ resp' = Redirect(route, c, method, cid, form, "admin_manage_contests",
                                     "success", "Contest updated successfully.")
       ELSE resp' = Render(route, c, method, cid, form) /\ UNCHANGED contests

\* /admin/contests/toggle/<contest_id>
admin_toggle_contest(c, cid) ==
    LET route == "admin_toggle_contest" IN
    /\ UNCHANGED <<db_engine, admins, students, settings, session,
                   failed_login_attempts, security_log, now, inflight>>
    /\ IF ~AdminGate(c)
       THEN resp' = ToLogin(route, c, "GET", cid, <<>>) /\ UNCHANGED contests
       ELSE IF cid \notin DOMAIN contests
       THEN resp' = NotFound(route, c, "GET", cid, <<>>) /\ UNCHANGED contests
       ELSE /\ contests' = [contests EXCEPT ![cid].is_active = ~@]
            /\ resp' = Redirect(route, c, "GET", cid, <<>>, "admin_manage_contests",
                                "success", "Contest status updated.")

\* /admin/contests/publish/<contest_id>
admin_toggle_publish(c, cid) ==
    LET route == "admin_toggle_publish" IN
    /\ UNCHANGED <<db_engine, admins, students, settings, session,
                   failed_login_attempts, security_log, now, inflight>>
    /\ IF ~AdminGate(c)
       THEN resp' = ToLogin(route, c, "GET", cid, <<>>) /\ UNCHANGED contests
       ELSE IF cid \notin DOMAIN contests
       THEN resp' = NotFound(route, c, "GET", cid, <<>>) /\ UNCHANGED contests
       ELSE /\ contests' = [contests EXCEPT ![cid].publish_results = ~@]
            /\ resp' = Redirect(route, c, "GET", cid, <<>>, "admin_past_contests",
                                "success", "Results are now published or hidden.")

\* /admin/contests/delete/<contest_id>
admin_delete_contest(c, cid) ==
    LET route == "admin_delete_contest" IN
    /\ UNCHANGED <<db_engine, admins, settings, session,
                   failed_login_attempts, security_log, now, inflight>>
    /\ IF ~AdminGate(c)
       THEN resp' = ToLogin(route, c, "GET", cid, <<>>) /\ UNCHANGED <<contests, students>>
       ELSE IF cid \notin DOMAIN contests
       THEN resp' = NotFound(route, c, "GET", cid, <<>>) /\ UNCHANGED <<contests, students>>
       ELSE /\ contests' = Remove(contests, cid)
            /\ students' = Cascade(cid)
            /\ resp' = Redirect(route, c, "GET", cid, <<>>, "admin_manage_contests",
                                "success",
                                "Contest and all its registrations have been deleted.")

\* ------------------------------------------------------ registration
\* `if not contest.is_active`: registration is open for an active contest
RegistrationOpenAlways(cid) == TRUE
RegistrationOpen(cid) == contests[cid].is_active

\* /register/<contest_id>, GET and POST: the whole handler in one step.
register(c, method, cid, email) ==
    LET form == <<email>>
        route == "register"
        st == Put(students, NextId(DOMAIN students), NewStudent(email, cid))
    IN
    /\ UNCHANGED <<db_engine, admins, contests, settings, session,
                   failed_login_attempts, security_log, now, inflight>>
    /\ IF cid \notin DOMAIN contests
       THEN resp' = NotFound(route, c, method, cid, form) /\ UNCHANGED students
       ELSE IF ~RegistrationOpen(cid)
       THEN /\ resp' = Redirect(route, c, method, cid, form, "index", "error",
                                "Registration for this contest is closed.")
            /\ UNCHANGED students
       ELSE IF method = "POST"
       THEN IF Registered(email, cid)
            THEN /\ resp' = Redirect(route, c, method, cid, form, "register", "error",
                                     "You have already registered for this contest.")
                 /\ UNCHANGED students
            ELSE /\ NextId(DOMAIN students) <= MaxStudents
                 /\ IF CommitOk(st, contests)
                    THEN /\ students' = st
                         /\ resp' = Redirect(route, c, method, cid, form, "student_login",
                                             "success", "You have successfully registered.")
                    ELSE /\ resp' = ServerError(route, c, method, cid, form,
                                                "IntegrityError")
                         /\ UNCHANGED students
       ELSE resp' = Render(route, c, method, cid, form) /\ UNCHANGED students

\* /admin/manual_registration, GET and POST.  contest_id is
\* int(request.form['contest_id']): whatever integer the form carries.
admin_manual_registration(c, method, email, cid) ==
    LET form == <<email>>
        route == "admin_manual_registration"
        st == Put(students, NextId(DOMAIN students), NewStudent(email, cid))
    IN
    /\ UNCHANGED <<db_engine, admins, contests, settings, session,
                   failed_login_attempts, security_log, now, inflight>>
    /\ IF ~AdminGate(c)
       THEN resp' = ToLogin(route, c, method, cid, form) /\ UNCHANGED students
       ELSE IF method = "POST"
       THEN IF Registered(email, cid)
            THEN /\ resp' = RenderFlash(route, c, method, cid, form, "error",
                                        "Student is already registered for this contest.")
                 /\ UNCHANGED students
            ELSE /\ NextId(DOMAIN students) <= MaxStudents
                 /\ IF CommitOk(st, contests)
                    THEN /\ students' = st
                         /\ resp' = Redirect(route, c, method, cid, form, "admin_dashboard",
                                             "success", "Student registered successfully.")
                    ELSE /\ resp' = ServerError(route, c, method, cid, form,
                                                "IntegrityError")
                         /\ UNCHANGED students
       ELSE resp' = Render(route, c, method, cid, form) /\ UNCHANGED students

\* Two requests in flight at once (the server handles requests in threads):
\* a POST /register/<contest_id> up to and including its duplicate check ...
register_check(c, cid, email) ==
    /\ cid \in DOMAIN contests
    /\ RegistrationOpen(cid)
    /\ ~Registered(email, cid)
    /\ Cardinality(inflight) < MaxInflight
    /\ inflight' = inflight \cup {[route |-> "register", client |-> c,
                                   email |-> email, contest_id |-> cid]}
    /\ UNCHANGED <<db_engine, store, session, failed_login_attempts, security_log,
                   now, resp>>

\* ... the same point of a POST /admin/manual_registration ...
manual_registration_check(c, email, cid) ==
    /\ AdminGate(c)
    /\ ~Registered(email, cid)
    /\ Cardinality(inflight) < MaxInflight
    /\ inflight' = inflight \cup {[route |-> "admin_manual_registration", client |-> c,
                                   email |-> email, contest_id |-> cid]}
    /\ UNCHANGED <<db_engine, store, session, failed_login_attempts, security_log,
                   now, resp>>

\* ... and the rest of either: db.session.add, db.session.commit, the response.
registration_commit(r) ==
    LET form == <<r.email>>
        st == Put(students, NextId(DOMAIN students), NewStudent(r.email, r.contest_id))
    IN
    /\ r \in inflight
    /\ NextId(DOMAIN students) <= MaxStudents
    /\ inflight' = inflight \ {r}
    /\ UNCHANGED <<db_engine, admins, contests, settings, session,
                   failed_login_attempts, security_log, now>>
    /\ IF CommitOk(st, contests)
       THEN /\ students' = st
            /\ resp' = IF r.route = "register"
                       THEN Redirect(r.route, r.client, "POST", r.contest_id, form,
                                     "student_login", "success",
                                     "You have successfully registered.")
                       ELSE Redirect(r.route, r.client, "POST", r.contest_id, form,
                                     "admin_dashboard", "success",
                                     "Student registered successfully.")
       ELSE /\ resp' = ServerError(r.route, r.client, "POST", r.contest_id, form,
                                   "IntegrityError")
            /\ UNCHANGED students

\* ------------------------------------------------- students, by admins
\* /admin/delete_student/<student_id>
admin_delete_student(c, sid) ==
    LET route == "admin_delete_student" IN
    /\ UNCHANGED <<db_engine, admins, contests, settings, session,
                   failed_login_attempts, security_log, now, inflight>>
    /\ IF ~AdminGate(c)
       THEN resp' = ToLogin(route, c, "POST", sid, <<>>) /\ UNCHANGED students
       ELSE IF sid \notin DOMAIN students
       THEN resp' = NotFound(route, c, "POST", sid, <<>>) /\ UNCHANGED students
       ELSE /\ students' = Remove(students, sid)
            /\ resp' = Redirect(route, c, "POST", sid, <<>>, "admin_dashboard", "success",
                                "Registration has been deleted.")

\* /admin/edit_student/<student_id>, GET and POST: email and status are stored
\* as submitted.
admin_edit_student(c, method, sid, email, status) ==
    LET form == <<email, status>>
        route == "admin_edit_student"
        st == [students EXCEPT ![sid].email = email, ![sid].status = status]
    IN
    /\ UNCHANGED <<db_engine, admins, contests, settings, session,
                   failed_login_attempts, security_log, now, inflight>>
    /\ IF ~AdminGate(c)
       THEN resp' = ToLogin(route, c, method, sid, form) /\ UNCHANGED students
       ELSE IF sid \notin DOMAIN students
       THEN resp' = NotFound(route, c, method, sid, form) /\ UNCHANGED students
       ELSE IF method = "POST"
       THEN IF CommitOk(st, contests)
            THEN /\ students' = st
                 /\ resp' = Redirect(route, c, method, sid, form, "admin_dashboard",
                                     "success", "Details have been updated.")
            ELSE /\ resp' = ServerError(route, c, method, sid, form, "IntegrityError")
                 /\ UNCHANGED students
       ELSE resp' = Render(route, c, method, sid, form) /\ UNCHANGED students

\* `if status in ['Accepted', 'Denied']`
ReviewDecisionsAny == {"Accepted", "Denied", "Waitlisted"}
ReviewDecisions == {"Accepted", "Denied"}

\* /admin/update_status/<student_id>/<status>
update_status(c, sid, status) ==
    LET form == <<status>>
        route == "update_status"
    IN
    /\ UNCHANGED <<db_engine, admins, contests, settings, session,
                   failed_login_attempts, security_log, now, inflight>>
    /\ IF ~AdminGate(c)
       THEN resp' = ToLogin(route, c, "GET", sid, form) /\ UNCHANGED students
       ELSE IF sid \notin DOMAIN students
       THEN resp' = NotFound(route, c, "GET", sid, form) /\ UNCHANGED students
       ELSE IF status \in ReviewDecisions
       THEN /\ students' = [students EXCEPT ![sid].status = status]
            /\ resp' = Redirect(route, c, "GET", sid, form, "admin_dashboard", "success",
                                "Application has been accepted or denied.")
       ELSE /\ resp' = Redirect(route, c, "GET", sid, form, "admin_dashboard", "none", "")
            /\ UNCHANGED students

\* `int(score) if score and score.isdigit() else None`.  A submitted score is
\* [isdigit |-> whether the text is a non-empty digit string, int |-> its value].
ParseScore(score) == IF score.isdigit THEN score.int ELSE NoScore

\* /admin/update_test_info/<student_id>
update_test_info(c, sid, test_link, score) ==
    LET form == <<test_link>>
        route == "update_test_info"
    IN
    /\ UNCHANGED <<db_engine, admins, contests, settings, session,
                   failed_login_attempts, security_log, now, inflight>>
    /\ IF ~AdminGate(c)
       THEN resp' = ToLogin(route, c, "POST", sid, form) /\ UNCHANGED students
       ELSE IF sid \notin DOMAIN students
       THEN resp' = NotFound(route, c, "POST", sid, form) /\ UNCHANGED students
       ELSE /\ students' = [students EXCEPT ![sid].test_link = test_link,
                                            ![sid].score = ParseScore(score)]
            /\ resp' = Redirect(route, c, "POST", sid, form, "admin_dashboard", "success",
                                "Information has been updated.")

\* ------------------------------------------------------------ admins
\* `if admin_id == session['admin_id']`, read once the gate has passed
OwnAccountNever(c, aid) == FALSE
OwnAccount(c, aid) == aid = session[c]["admin_id"]

\* /admin/delete_admin/<admin_id>
admin_delete_admin(c, aid) ==
    LET route == "admin_delete_admin" IN
    /\ UNCHANGED <<db_engine, contests, students, settings, session,
                   failed_login_attempts, security_log, now, inflight>>
    /\ IF ~AdminGate(c)
       THEN resp' = ToLogin(route, c, "POST", aid, <<>>) /\ UNCHANGED admins
       ELSE IF OwnAccount(c, aid)
       THEN /\ resp' = Redirect(route, c, "POST", aid, <<>>, "admin_manage_admins", "error",
                                "You cannot delete your own account.")
            /\ UNCHANGED admins
       ELSE IF aid \notin DOMAIN admins
       THEN resp' = NotFound(route, c, "POST", aid, <<>>) /\ UNCHANGED admins
       ELSE /\ admins' = Remove(admins, aid)
            /\ resp' = Redirect(route, c, "POST", aid, <<>>, "admin_manage_admins", "success",
                                "Admin account has been deleted successfully.")

\* ---------------------------------------------------------- settings
\* /admin/settings, GET and POST
admin_settings(c, method, link) ==
    LET form == <<link>>
        route == "admin_settings"
    IN
    /\ UNCHANGED <<db_engine, admins, contests, students, session,
                   failed_login_attempts, security_log, now, inflight>>
    /\ IF ~AdminGate(c)
       THEN resp' = ToLogin(route, c, method, 0, form) /\ UNCHANGED settings
       ELSE IF method = "POST"
       THEN /\ settings' = Put(settings, "global_test_link", link)
            /\ resp' = Redirect(route, c, method, 0, form, "admin_settings", "success",
                                "Global settings saved successfully!")
       ELSE resp' = Render(route, c, method, 0, form) /\ UNCHANGED settings

\* /admin/email_settings, GET and POST
admin_email_settings(c, method, mail_username, mail_app_password) ==
    LET form == <<mail_username, mail_app_password>>
        route == "admin_email_settings"
    IN
    /\ UNCHANGED <<db_engine, admins, contests, students, session,
                   failed_login_attempts, security_log, now, inflight>>
    /\ IF ~AdminGate(c)
       THEN resp' = ToLogin(route, c, method, 0, form) /\ UNCHANGED settings
       ELSE IF method = "POST"
       THEN /\ settings' = Put(Put(settings, "mail_username", mail_username),
                               "mail_app_password", mail_app_password)
            /\ resp' = Redirect(route, c, method, 0, form, "admin_email_settings",
                                "success", "Email settings saved successfully!")
       ELSE resp' = Render(route, c, method, 0, form) /\ UNCHANGED settings

\* configure_mailer: both mail settings exist and are non-empty
configure_mailer ==
    /\ {"mail_username", "mail_app_password"} \subseteq DOMAIN settings
    /\ settings["mail_username"] \notin {"", None}
    /\ settings["mail_app_password"] \notin {"", None}

\* Student.query.filter_by(status='Accepted', test_link=None).all()
students_to_notify ==
    {i \in DOMAIN students :
        students[i].status = "Accepted" /\ students[i].test_link = None}

\* /admin/assign_and_email_all.  connect_ok: mail.connect() opens the SMTP
\* session.  A failing conn.send is caught and changes no record; the last
\* flash is the success message either way.  student.contest.name is read outside the try: a student whose contest row
\* does not exist ends the request with AttributeError, nothing committed.
assign_and_email_all(c, connect_ok) ==
    LET form == <<>>
        route == "assign_and_email_all"
    IN
    /\ UNCHANGED <<db_engine, admins, contests, settings, session,
                   failed_login_attempts, security_log, now, inflight>>
    /\ IF ~AdminGate(c)
       THEN resp' = ToLogin(route, c, "GET", 0, form) /\ UNCHANGED students
       ELSE IF ~configure_mailer
       THEN /\ resp' = Redirect(route, c, "GET", 0, form, "admin_email_settings", "error",
                                "Email settings are not configured.")
            /\ UNCHANGED students
       ELSE IF "global_test_link" \notin DOMAIN settings
               \/ settings["global_test_link"] \in {"", None}
       THEN /\ resp' = Redirect(route, c, "GET", 0, form, "admin_settings", "error",
                                "Please set a global test link in Global Settings first.")
            /\ UNCHANGED students
       ELSE IF students_to_notify = {}
       THEN /\ resp' = Redirect(route, c, "GET", 0, form, "admin_dashboard", "info",
                                "No new accepted students to notify.")
            /\ UNCHANGED students
       ELSE IF ~connect_ok
       THEN /\ resp' = ServerError(route, c, "GET", 0, form, "SMTPException")
            /\ UNCHANGED students
       ELSE IF \E i \in students_to_notify : students[i].contest_id \notin DOMAIN contests
       THEN /\ resp' = ServerError(route, c, "GET", 0, form, "AttributeError")
            /\ UNCHANGED students
       ELSE /\ students' = [i \in DOMAIN students |->
                               IF i \in students_to_notify
                               THEN [students[i] EXCEPT
                                        !.test_link = settings["global_test_link"]]
                               ELSE students[i]]
            /\ resp' = Redirect(route, c, "GET", 0, form, "admin_dashboard", "success",
                                "Assigned test link and sent notifications.")

\* ------------------------------------------------------------ exports
\* The ids of S as a sequence in increasing order (the order rows come back
\* from a query without ORDER BY, and of a relationship's list).
RECURSIVE ById(_)
ById(S) ==
    IF S = {} THEN <<>>
    ELSE LET m == CHOOSE x \in S : \A y \in S : x <= y
         IN <<m>> \o ById(S \ {m})

\* /admin/export/csv: the header row, then one row per Student; each row reads
\* s.contest.name, which raises AttributeError when the contest row is missing.
admin_export_csv(c) ==
    LET route == "admin_export_csv"
        ids == ById(DOMAIN students)
        rows == [k \in 1..Len(ids) |-> [kind |-> "student", id |-> ids[k]]]
    IN
    /\ UNCHANGED <<db_engine, store, session, failed_login_attempts, security_log,
                   now, inflight>>
    /\ resp' =
         IF ~AdminGate(c) THEN ToLogin(route, c, "GET", 0, <<>>)
         ELSE IF DOMAIN students = {}
         THEN Redirect(route, c, "GET", 0, <<>>, "admin_dashboard", "error",
                       "No students found to export.")
         ELSE IF \E i \in DOMAIN students : students[i].contest_id \notin DOMAIN contests
         THEN ServerError(route, c, "GET", 0, <<>>, "AttributeError")
         ELSE Response(route, c, "GET", 0, <<>>, 200, "", "none", "",
                       <<[kind |-> "header", id |-> 0]>> \o rows)

\* Student.query.filter(Student.score.isnot(None))
ScoredAll == DOMAIN students
Scored == {i \in DOMAIN students : students[i].score # NoScore}

\* .order_by(Student.score.desc()).all(): the scored students in an order the
\* database chooses among those with non-increasing scores (ORDER BY leaves
\* the order of equal scores open).
ScoreDescOrders ==
    LET n == Cardinality(Scored) IN
    {f \in [1..n -> Scored] :
        /\ \A a \in 1..n : \A b \in 1..n : f[a] = f[b] => a = b
        /\ \A a \in 1..n : \A b \in 1..n :
              a < b => students[f[a]].score >= students[f[b]].score}

\* /admin/export/pdf: table_data is the header row, then (i + 1, ..., score)
\* for each student of the ordered query; PDF.create_table writes the rows it
\* is given, one table line each, in that order.
admin_export_pdf(c) ==
    LET route == "admin_export_pdf" IN
    /\ UNCHANGED <<db_engine, store, session, failed_login_attempts, security_log,
                   now, inflight>>
    /\ IF ~AdminGate(c) THEN resp' = ToLogin(route, c, "GET", 0, <<>>)
       ELSE IF Scored = {}
       THEN resp' = Redirect(route, c, "GET", 0, <<>>, "admin_dashboard", "error",
                             "No students with scores found to export.")
       ELSE \E order \in ScoreDescOrders :
               resp' = Response(route, c, "GET", 0, <<>>, 200, "", "none", "",
                          <<[kind |-> "header", rank |-> 0, id |-> 0, score |-> NoScore]>>
                          \o [k \in 1..Cardinality(Scored) |->
                                [kind |-> "student", rank |-> k, id |-> order[k],
                                 score |-> students[order[k]].score]])

\* ------------------------------------------------------- public pages
ContestStudents(cid) == {i \in DOMAIN students : students[i].contest_id = cid}

\* contest.students|sort(attribute='score', reverse=True): Python's sorted on
\* the scores.  Ordering None against an integer raises TypeError, which any
\* list holding both must do.  A list of two or more that holds only None
\* raises as well where the filter compares the bare values (Jinja before
\* 2.11, legacy_sort) and does not where it compares one-element key lists.
SortRaises(cid, legacy_sort) ==
    LET scores == {students[i].score : i \in ContestStudents(cid)} IN
    /\ Cardinality(ContestStudents(cid)) >= 2
    /\ NoScore \in scores
    /\ legacy_sort \/ scores # {NoScore}

\* sorted(..., reverse=True) is stable: by score descending, ties in list order.
RECURSIVE SortByScore(_)
SortByScore(S) ==
    IF S = {} THEN <<>>
    ELSE LET m == CHOOSE x \in S :
                     \A y \in S : \/ students[x].score > students[y].score
                                  \/ students[x].score = students[y].score /\ x <= y
         IN <<m>> \o SortByScore(S \ {m})

\* The rows of one contest's table: `{% if student.score is not none %}`.
ResultRows(cid) ==
    LET ids == SortByScore(ContestStudents(cid))
        shown == SelectSeq(ids, LAMBDA i : students[i].score # NoScore)
    IN [k \in 1..Len(shown) |-> [kind |-> "result", id |-> shown[k],
                                 score |-> students[shown[k]].score]]

RECURSIVE ResultPage(_)
ResultPage(cids) ==
    IF cids = <<>> THEN <<>> ELSE ResultRows(Head(cids)) \o ResultPage(Tail(cids))

\* /results: Contest.query.filter_by(publish_results=True), one table each
public_results(c, legacy_sort) ==
    LET route == "public_results"
        published == {i \in DOMAIN contests : contests[i].publish_results}
    IN
    /\ UNCHANGED <<db_engine, store, session, failed_login_attempts, security_log,
                   now, inflight>>
    /\ resp' = IF \E i \in published : SortRaises(i, legacy_sort)
               THEN ServerError(route, c, "GET", 0, <<>>, "TypeError")
               ELSE Response(route, c, "GET", 0, <<>>, 200, "", "none", "",
                             ResultPage(ById(published)))

\* /student/login, GET and POST
student_login(c, method, email) ==
    LET form == <<email>>
        route == "student_login"
    IN
    /\ UNCHANGED <<db_engine, store, failed_login_attempts, security_log, now, inflight>>
    /\ IF "student_email" \in DOMAIN session[c]
       THEN /\ resp' = Redirect(route, c, method, 0, form, "student_dashboard", "none", "")
            /\ UNCHANGED session
       ELSE IF method = "POST"
       THEN IF \E i \in DOMAIN students : students[i].email = email
            THEN /\ session' = [session EXCEPT ![c] = Put(@, "student_email", email)]
                 /\ resp' = Redirect(route, c, method, 0, form, "student_dashboard",
                                     "none", "")
            ELSE /\ resp' = RenderFlash(route, c, method, 0, form, "error",
                                        "No application found with that email address.")
                 /\ UNCHANGED session
       ELSE resp' = Render(route, c, method, 0, form) /\ UNCHANGED session

\* /student/dashboard
student_dashboard(c) ==
    LET route == "student_dashboard" IN
    /\ UNCHANGED <<db_engine, store, failed_login_attempts, security_log, now, inflight>>
    /\ IF "student_email" \notin DOMAIN session[c]
       THEN /\ resp' = Redirect(route, c, "GET", 0, <<>>, "student_login", "none", "")
            /\ UNCHANGED session
       ELSE IF ~\E i \in DOMAIN students : students[i].email = session[c]["student_email"]
       THEN /\ session' = [session EXCEPT ![c] = Remove(@, "student_email")]
            /\ resp' = Redirect(route, c, "GET", 0, <<>>, "student_login", "error",
                                "No applications found for your email.")
       ELSE resp' = Render(route, c, "GET", 0, <<>>) /\ UNCHANGED session

\* The clock.
Tick ==
    /\ now + TickStep <= MaxTime * TickStep
    /\ now' = now + TickStep
    /\ UNCHANGED <<db_engine, store, session, failed_login_attempts, security_log,
                   inflight, resp>>

\* ------------------------------------------------------ request inputs
Methods == {"GET", "POST"}
Emails == {"a@nitn.in", "b@nitn.in"}
ContestIds == 1..MaxContests
StudentIds == 1..MaxStudents
AdminIds == 1..MaxAdmins
\* a submitted contest_id is any integer: the ids contests can have, and one
\* no contest ever has
SubmittedContestIds == 1..(MaxContests + 1)
Operator == "operator"  \* the client the administrator works from
Visitor == "visitor"    \* a client that never logs in as an administrator
\* logging in with the default account's credentials
OperatorLogin == admin_login(Operator, "POST", "login", "admin", "password", "", "")

\* ------------------------------------- contests and registrations
Next ==
    \/ OperatorLogin
    \/ logout(Operator)
    \/ admin_manage_contests(Operator, "POST", "CodeFest", TRUE)
    \/ \E cid \in ContestIds : admin_toggle_contest(Operator, cid)
    \/ \E cid \in ContestIds : admin_delete_contest(Operator, cid)
    \/ \E m \in Methods, cid \in ContestIds, e \in Emails : register(Visitor, m, cid, e)
    \/ \E cid \in SubmittedContestIds, e \in Emails :
          admin_manual_registration(Operator, "POST", e, cid)
    \/ \E sid \in StudentIds : admin_delete_student(Operator, sid)
    \/ admin_export_csv(Operator)

Spec == Init /\ [][Next]_vars

\* ------------------------------------------------- cascade on delete
NextCascade ==
    \/ OperatorLogin
    \/ admin_manage_contests(Operator, "POST", "CodeFest", TRUE)
    \/ \E cid \in ContestIds : admin_delete_contest(Operator, cid)
    \/ \E cid \in SubmittedContestIds, e \in Emails :
          admin_manual_registration(Operator, "POST", e, cid)

SpecCascade == Init /\ [][NextCascade]_vars

\* ------------------------------------------ concurrent registrations
\* Every registration here is for contest 1, so that they compete for the
\* same (email, contest_id) pairs.
NextConc ==
    \/ OperatorLogin
    \/ admin_manage_contests(Operator, "POST", "CodeFest", TRUE)
    \/ \E cid \in ContestIds : admin_delete_contest(Operator, cid)
    \/ \E e \in Emails : register(Visitor, "POST", 1, e)
    \/ \E e \in Emails : register_check(Visitor, 1, e)
    \/ \E e \in Emails : manual_registration_check(Operator, e, 1)
    \/ \E r \in inflight : registration_commit(r)
    \/ \E sid \in StudentIds, e \in Emails :
          admin_edit_student(Operator, "POST", sid, e, "Pending")
    \/ \E sid \in StudentIds : admin_delete_student(Operator, sid)

SpecConc == Init /\ [][NextConc]_vars

\* ------------------------------------------------- reviewing students
StatusInputs == {"Pending", "Accepted", "Denied", "Waitlisted"}

NextStatus ==
    \/ OperatorLogin
    \/ admin_manage_contests(Operator, "POST", "CodeFest", TRUE)
    \/ \E cid \in ContestIds, e \in Emails :
          admin_manual_registration(Operator, "POST", e, cid)
    \/ \E cid \in ContestIds, e \in Emails : register(Visitor, "POST", cid, e)
    \/ \E sid \in StudentIds, st \in StatusInputs : update_status(Operator, sid, st)
    \/ \E sid \in StudentIds, e \in Emails, st \in StatusInputs :
          admin_edit_student(Operator, "POST", sid, e, st)

SpecStatus == Init /\ [][NextStatus]_vars

\* ---------------------------------------------- scores and publishing
\* submitted score texts: "", "abc", "7", "9"
ScoreInputs == {[isdigit |-> FALSE, int |-> 0], [isdigit |-> TRUE, int |-> 7],
                [isdigit |-> TRUE, int |-> 9]}

NextResults ==
    \/ OperatorLogin
    \/ admin_manage_contests(Operator, "POST", "CodeFest", TRUE)
    \/ \E cid \in ContestIds, e \in Emails :
          admin_manual_registration(Operator, "POST", e, cid)
    \/ \E sid \in StudentIds, sc \in ScoreInputs :
          update_test_info(Operator, sid, "https://test.example/1", sc)
    \/ \E cid \in ContestIds : admin_toggle_publish(Operator, cid)
    \/ \E legacy_sort \in BOOLEAN : public_results(Visitor, legacy_sort)

SpecResults == Init /\ [][NextResults]_vars

\* ----------------------------------------------- admin registration
RegUsernames == {"", "admin", "root"}
RegPasswords == {"", "abc", "password"}
RegConfirms == {"abc", "password"}
RegCodes == {"", "letmein", ADMIN_REGISTRATION_CODE}

NextAdminReg ==
    \/ OperatorLogin
    \/ logout(Operator)
    \/ admin_login(Visitor, "GET", "login", "", "", "", "")
    \/ \E u \in RegUsernames, pw \in RegPasswords, cp \in RegConfirms, code \in RegCodes :
          admin_login(Visitor, "POST", "register", u, pw, cp, code)
    \/ \E aid \in AdminIds : admin_delete_admin(Operator, aid)

SpecAdminReg == Init /\ [][NextAdminReg]_vars

\* ------------------------------------------------- login and lockout
NextLogin ==
    \/ \E c \in Clients, pw \in {"password", "letmein"} :
          admin_login(c, "POST", "login", "admin", pw, "", "")
    \/ \E c \in Clients : admin_login(c, "GET", "login", "", "", "", "")
    \/ \E c \in Clients :
          admin_login(c, "POST", "register", "root", "password", "password", "letmein")
    \/ \E c \in Clients : logout(c)
    \/ Tick

SpecLogin == Init /\ [][NextLogin]_vars

\* --------------------------------------------------- the admin gate
\* The operator logs in and fills the store; the visitor, who never logs in
\* as an administrator, requests every route that writes to the store.
NextGate ==
    \/ OperatorLogin
    \/ logout(Operator)
    \/ admin_manage_contests(Operator, "POST", "CodeFest", TRUE)
    \/ admin_manual_registration(Operator, "POST", "a@nitn.in", 1)
    \/ update_status(Operator, 1, "Accepted")
    \/ admin_settings(Operator, "POST", "https://test.example/all")
    \/ admin_email_settings(Operator, "POST", "codefest@nitn.in", "app-password")
    \/ admin_login(Visitor, "POST", "register", "root", "password", "password",
                   ADMIN_REGISTRATION_CODE)
    \/ \E token \in {"letmein", RESET_TOKEN} : reset_admin_password(Visitor, token)
    \/ admin_manage_contests(Visitor, "POST", "CodeFest", TRUE)
    \/ \E cid \in ContestIds : admin_edit_contest(Visitor, "POST", cid, "Renamed", TRUE)
    \/ \E cid \in ContestIds : admin_toggle_contest(Visitor, cid)
    \/ \E cid \in ContestIds : admin_toggle_publish(Visitor, cid)
    \/ \E cid \in ContestIds : admin_delete_contest(Visitor, cid)
    \/ \E aid \in AdminIds : admin_delete_admin(Visitor, aid)
    \/ \E sid \in StudentIds : admin_delete_student(Visitor, sid)
    \/ admin_settings(Visitor, "POST", "https://evil.example")
    \/ admin_email_settings(Visitor, "POST", "evil@example.org", "pw")
    \/ assign_and_email_all(Visitor, TRUE)
    \/ admin_manual_registration(Visitor, "POST", "b@nitn.in", 1)
    \/ \E sid \in StudentIds :
          admin_edit_student(Visitor, "POST", sid, "b@nitn.in", "Denied")
    \/ \E sid \in StudentIds : update_status(Visitor, sid, "Denied")
    \/ \E sid \in StudentIds :
          update_test_info(Visitor, sid, "https://evil.example", [isdigit |-> TRUE, int |-> 9])
    \/ register(Visitor, "POST", 1, "b@nitn.in")

SpecGate == Init /\ [][NextGate]_vars

\* ------------------------------------------------- score report
NextPdf ==
    \/ OperatorLogin
    \/ admin_manage_contests(Operator, "POST", "CodeFest", TRUE)
    \/ \E cid \in ContestIds, e \in Emails :
          admin_manual_registration(Operator, "POST", e, cid)
    \/ \E sid \in StudentIds, sc \in ScoreInputs :
          update_test_info(Operator, sid, "https://test.example/1", sc)
    \/ admin_export_pdf(Operator)

SpecPdf == Init /\ [][NextPdf]_vars

\* ------------------------------------------------- status decisions
NextReview ==
    \/ OperatorLogin
    \/ admin_manage_contests(Operator, "POST", "CodeFest", TRUE)
    \/ \E cid \in ContestIds, e \in Emails :
          admin_manual_registration(Operator, "POST", e, cid)
    \/ \E sid \in StudentIds, st \in StatusInputs : update_status(Operator, sid, st)

SpecReview == Init /\ [][NextReview]_vars

\* ------------------------------------------- a registration's life
\* Registrations here are for contest 1.
NextLifecycle ==
    \/ OperatorLogin
    \/ admin_manage_contests(Operator, "POST", "CodeFest", TRUE)
    \/ \E e \in Emails : register(Visitor, "POST", 1, e)
    \/ \E e \in Emails : admin_manual_registration(Operator, "POST", e, 1)
    \/ \E sid \in StudentIds, st \in ReviewDecisions : update_status(Operator, sid, st)
    \/ \E sid \in StudentIds, e \in Emails, st \in {"Pending", "Accepted"} :
          admin_edit_student(Operator, "POST", sid, e, st)
    \/ \E sid \in StudentIds :
          update_test_info(Operator, sid, "https://test.example/1",
                           [isdigit |-> TRUE, int |-> 7])
    \/ \E sid \in StudentIds : admin_delete_student(Operator, sid)

SpecLifecycle == Init /\ [][NextLifecycle]_vars

\* ------------------------------------------------ test links
\* the test_link field of the dashboard's form: left empty, or filled in
TestLinkInputs == {"", "https://test.example/1"}

NextAssign ==
    \/ OperatorLogin
    \/ admin_manage_contests(Operator, "POST", "CodeFest", TRUE)
    \/ \E e \in Emails : register(Visitor, "POST", 1, e)
    \/ \E sid \in StudentIds, st \in ReviewDecisions : update_status(Operator, sid, st)
    \/ \E sid \in StudentIds, link \in TestLinkInputs :
          update_test_info(Operator, sid, link, [isdigit |-> TRUE, int |-> 7])
    \/ \E link \in {"", "https://test.example/all"} : admin_settings(Operator, "POST", link)
    \/ admin_email_settings(Operator, "POST", "codefest@nitn.in", "app-password")
    \/ \E connect_ok \in BOOLEAN : assign_and_email_all(Operator, connect_ok)

SpecAssign == Init /\ [][NextAssign]_vars

\* ------------------------------------------- closing registration
NextClosed ==
    \/ OperatorLogin
    \/ admin_manage_contests(Operator, "POST", "CodeFest", TRUE)
    \/ \E cid \in ContestIds : admin_toggle_contest(Operator, cid)
    \/ \E m \in Methods, cid \in ContestIds, e \in Emails : register(Visitor, m, cid, e)

SpecClosed == Init /\ [][NextClosed]_vars

\* ------------------------------------------------ admin accounts
\* Two administrators: the default account on one client, an account
\* registered with the security code on the other.
NextAdmins ==
    \/ OperatorLogin
    \/ admin_login(Visitor, "POST", "register", "root", "password", "password",
                   ADMIN_REGISTRATION_CODE)
    \/ admin_login(Visitor, "POST", "login", "root", "password", "", "")
    \/ \E c \in Clients : logout(c)
    \/ \E c \in Clients, aid \in AdminIds : admin_delete_admin(c, aid)

SpecAdmins == Init /\ [][NextAdmins]_vars

\* ------------------------------------------------------- logging out
\* One browser that logs in as admin and as student, works, and logs out.
NextLogout ==
    \/ OperatorLogin
    \/ logout(Operator)
    \/ \E e \in Emails : register(Visitor, "POST", 1, e)
    \/ \E e \in Emails : student_login(Operator, "POST", e)
    \/ admin_manage_contests(Operator, "POST", "CodeFest", TRUE)
    \/ \E cid \in ContestIds : admin_toggle_publish(Operator, cid)
    \/ \E cid \in ContestIds : admin_delete_contest(Operator, cid)
    \/ \E sid \in StudentIds : update_status(Operator, sid, "Accepted")
    \/ \E sid \in StudentIds : admin_delete_student(Operator, sid)
    \/ admin_settings(Operator, "POST", "https://test.example/all")
    \/ \E aid \in AdminIds : admin_delete_admin(Operator, aid)
    \/ admin_export_csv(Operator)

SpecLogout == Init /\ [][NextLogout]_vars

\* ------------------------------------------------------------ claims
\* A step in which a request to `route` was handled: resp' describes it.  (The
\* clock's steps and the first halves of in-flight registrations leave resp alone.)
Handled(route) ==
    /\ resp'.route = route
    /\ <<store, session, failed_login_attempts, security_log, resp>>'
           # <<store, session, failed_login_attempts, security_log, resp>>

HandledAny ==
    <<store, session, failed_login_attempts, security_log, resp>>'
        # <<store, session, failed_login_attempts, security_log, resp>>

SamePair(a, b) == a.email = b.email /\ a.contest_id = b.contest_id

\* C1: in every reachable state, whatever the interleaving of public
\* registrations, manual registrations, student edits and deletions, no two
\* Student records have the same (email, contest_id) pair.
C1_UniqueEmailPerContest ==
    \A i \in DOMAIN students : \A j \in DOMAIN students :
        SamePair(students[i], students[j]) => i = j

\* C1 witness: a public registration passed its duplicate check, another
\* request registered the same pair first, and the commit was refused.
C1_Witness ==
    /\ resp.route = "register"
    /\ resp.exc = "IntegrityError"
    /\ \E i \in DOMAIN students :
          students[i].email = resp.form[1] /\ students[i].contest_id = resp.id

\* C2 (as claimed): a registration POST, public or by an admin, whose email is
\* already registered for the target contest is answered with an error flash
\* and leaves the Student table unchanged.
C2_DuplicateRejected ==
    [][(/\ HandledAny
        /\ resp'.route \in {"register", "admin_manual_registration"}
        /\ resp'.method = "POST"
        /\ resp'.route = "admin_manual_registration"
              => "admin_id" \in DOMAIN session[resp'.client]
        /\ \E i \in DOMAIN students :
              students[i].email = resp'.form[1] /\ students[i].contest_id = resp'.id)
       => (students' = students /\ resp'.flash_cat = "error")]_vars

\* C3 (as claimed): in every reachable state every Student's status is one of
\* Pending, Accepted, Denied.
C3_StatusEnum ==
    \A i \in DOMAIN students : students[i].status \in {"Pending", "Accepted", "Denied"}

\* What a request without admin_id in its session may not change, Admin
\* records aside.
GateKeepsStore ==
    /\ contests' = contests
    /\ settings' = settings
    /\ students' # students => resp'.route = "register"

\* C4 (as claimed): a request whose session holds no admin_id changes no
\* Admin, Contest or ContestSetting record, and no Student record unless it is
\* a public registration.
C4_GatedBySession ==
    [][(HandledAny /\ "admin_id" \notin DOMAIN session[resp'.client])
       => (GateKeepsStore /\ admins' = admins)]_vars

\* C4 (amended): the same for Contest, ContestSetting and Student records;
\* Admin records such a request changes only through the register action of
\* /admin/login or through /reset_admin_password.
C4_GatedExceptAdminRoutes ==
    [][(HandledAny /\ "admin_id" \notin DOMAIN session[resp'.client])
       => /\ GateKeepsStore
          /\ admins' # admins => resp'.route \in {"admin_login", "reset_admin_password"}]_vars

\* C4 witness: the visitor asked to delete an existing contest and was sent to
\* the login page.
C4_Witness ==
    /\ resp.route = "admin_delete_contest"
    /\ resp.client = Visitor
    /\ resp.location = "admin_login"
    /\ resp.id \in DOMAIN contests
    /\ \E i \in DOMAIN students : students[i].contest_id = resp.id

\* C5: a successful admin_delete_contest removes that contest and exactly the
\* Student records of that contest; every other contest and every other
\* Student record stays as it was.
C5_DeleteContestCascades ==
    [][(Handled("admin_delete_contest") /\ resp'.flash_cat = "success")
       => /\ resp'.id \in DOMAIN contests
          /\ DOMAIN contests' = DOMAIN contests \ {resp'.id}
          /\ \A k \in DOMAIN contests' : contests'[k] = contests[k]
          /\ DOMAIN students' =
                {i \in DOMAIN students : students[i].contest_id # resp'.id}
          /\ \A i \in DOMAIN students' : students'[i] = students[i]]_vars

\* C5 witness: a contest was deleted, its student (id 1) went with it, and a
\* student of another contest (id 2) is still there.
C5_Witness ==
    /\ resp.route = "admin_delete_contest"
    /\ resp.flash_cat = "success"
    /\ DOMAIN students = {2}
    /\ DOMAIN contests # {}

\* C6 (as claimed): every Student's contest_id is the id of an existing Contest.
C6_NoOrphans ==
    \A i \in DOMAIN students : students[i].contest_id \in DOMAIN contests

\* C7 (as claimed): once 5 failed attempts are on record for an IP, a request to
\* /admin/login from it within 300 seconds of the last one sets no admin_id,
\* creates no Admin and leaves the attempt table alone.
C7_LockedOutIsRefused ==
    [][(/\ Handled("admin_login")
        /\ resp'.client \in DOMAIN security_log
        /\ security_log[resp'.client].failed >= MAX_LOGIN_ATTEMPTS
        /\ now - security_log[resp'.client].last < LOGIN_LOCKOUT_TIME)
       => /\ "admin_id" \in DOMAIN session'[resp'.client]
                => "admin_id" \in DOMAIN session[resp'.client]
          /\ admins' = admins
          /\ failed_login_attempts' = failed_login_attempts]_vars

\* C8: the register action of the login page changes the Admin table only by
\* adding one account, and only when the security code is
\* ADMIN_REGISTRATION_CODE, the username is non-empty and not taken, the two
\* passwords match and the password has at least 6 characters.
C8_RegistrationNeedsCode ==
    [][(Handled("admin_login") /\ admins' # admins)
       => LET form == resp'.form IN
          /\ resp'.method = "POST"
          /\ form[1] = "register"
          /\ form[5] = ADMIN_REGISTRATION_CODE
          /\ form[2] # ""
          /\ \A i \in DOMAIN admins : admins[i].username # form[2]
          /\ form[3] = form[4]
          /\ Len(form[3]) >= 6
          /\ \E n \in DOMAIN admins' \ DOMAIN admins :
                /\ DOMAIN admins' = DOMAIN admins \cup {n}
                /\ admins'[n].username = form[2]
                /\ \A i \in DOMAIN admins : admins'[i] = admins[i]]_vars

\* C8 witness: a registration with the code went through while an account
\* already existed.
C8_Witness ==
    /\ resp.route = "admin_login"
    /\ resp.flash_cat = "success"
    /\ resp.form[5] = ADMIN_REGISTRATION_CODE
    /\ Cardinality(DOMAIN admins) = 2
    /\ \E i \in DOMAIN admins : admins[i].username = resp.form[2]

\* C9 (as claimed): /results shows a student's score iff the student's contest
\* has publish_results set and the score is not null; admin_toggle_publish
\* flips that contest's publish_results and changes nothing else.
C9_ResultsOnlyWhenPublished ==
    [][/\ Handled("public_results")
          => \A i \in DOMAIN students' :
                (\E k \in DOMAIN resp'.body :
                    resp'.body[k].id = i /\ resp'.body[k].score = students'[i].score)
                <=> /\ students'[i].contest_id \in DOMAIN contests'
                    /\ contests'[students'[i].contest_id].publish_results
                    /\ students'[i].score # NoScore
       /\ (Handled("admin_toggle_publish") /\ resp'.flash_cat = "success")
          => /\ students' = students
             /\ DOMAIN contests' = DOMAIN contests
             /\ \A k \in DOMAIN contests :
                   contests'[k] = IF k = resp'.id
                                  THEN [contests[k] EXCEPT !.publish_results = ~@]
                                  ELSE contests[k]]_vars

\* C10 (as claimed): for an admin, /admin/export/csv answers with the header
\* row and exactly one row per Student record when there is one, and with a
\* redirect, an error flash and no file when there is none.
C10_CsvComplete ==
    (resp.route = "admin_export_csv" /\ resp.location # "admin_login")
    => IF DOMAIN students = {}
       THEN resp.status = 302 /\ resp.flash_cat = "error" /\ resp.body = <<>>
       ELSE /\ resp.status = 200
            /\ Len(resp.body) = 1 + Cardinality(DOMAIN students)
            /\ resp.body[1].kind = "header"
            /\ \A i \in DOMAIN students :
                  Cardinality({k \in 2..Len(resp.body) : resp.body[k].id = i}) = 1

\* C11: for an admin, /admin/export/pdf lists exactly the Students whose score
\* is not null, in non-increasing score order, with ranks 1..n in that order;
\* with no scored student it redirects with an error flash and no file.
C11_PdfRanksScored ==
    [][Handled("admin_export_pdf") /\ resp'.location # "admin_login"
       => LET body == resp'.body
              n == Cardinality({i \in DOMAIN students : students[i].score # NoScore})
          IN
          IF n = 0
          THEN resp'.status = 302 /\ resp'.flash_cat = "error" /\ body = <<>>
          ELSE /\ resp'.status = 200
               /\ Len(body) = n + 1
               /\ body[1].kind = "header"
               /\ \A k \in 2..(n + 1) :
                     /\ body[k].rank = k - 1
                     /\ body[k].id \in DOMAIN students
                     /\ students[body[k].id].score # NoScore
                     /\ body[k].score = students[body[k].id].score
                     /\ \A j \in 2..(n + 1) : body[j].id = body[k].id => j = k
                     /\ \A j \in 2..(n + 1) : j < k => body[j].score >= body[k].score]_vars

\* C11 witness: a report of two students was produced in which the student
\* registered later has the higher score and rank 1.
C11_Witness ==
    /\ resp.route = "admin_export_pdf"
    /\ resp.status = 200
    /\ Len(resp.body) = 3
    /\ resp.body[2].score > resp.body[3].score
    /\ resp.body[2].id > resp.body[3].id

\* C12: update_status for an admin session and an existing student sets that
\* student's status to a requested Accepted or Denied and changes nothing
\* else; any other requested status leaves the whole store unchanged.
C12_UpdateStatusFrame ==
    [][(/\ Handled("update_status")
        /\ "admin_id" \in DOMAIN session[resp'.client]
        /\ resp'.id \in DOMAIN students)
       => IF resp'.form[1] \in {"Accepted", "Denied"}
          THEN /\ students' = [students EXCEPT ![resp'.id].status = resp'.form[1]]
               /\ admins' = admins /\ contests' = contests /\ settings' = settings
          ELSE store' = store]_vars

\* C12 witness: a student was denied while another student stayed Pending.
C12_Witness ==
    /\ resp.route = "update_status"
    /\ resp.form[1] = "Denied"
    /\ resp.id \in DOMAIN students
    /\ students[resp.id].status = "Denied"
    /\ \E i \in DOMAIN students : students[i].status = "Pending"

\* C13: a Student record created by public or manual registration starts with
\* status Pending, no test link and no score; an existing student's status
\* becomes Accepted or Denied only in an admin's update_status or
\* admin_edit_student request.
C13_StartsPending ==
    [][/\ \A i \in DOMAIN students' \ DOMAIN students :
             /\ resp'.route \in {"register", "admin_manual_registration"}
             /\ students'[i].status = "Pending"
             /\ students'[i].test_link = None
             /\ students'[i].score = NoScore
       /\ \A i \in DOMAIN students' \cap DOMAIN students :
             (/\ students'[i].status \in {"Accepted", "Denied"}
              /\ students'[i].status # students[i].status)
             => /\ resp'.route \in {"update_status", "admin_edit_student"}
                /\ "admin_id" \in DOMAIN session[resp'.client]]_vars

\* C13 witness: a student who registered publicly has been accepted, has a
\* score, and a second registration is in the table, still Pending.
C13_Witness ==
    /\ resp.route = "register"
    /\ resp.flash_cat = "success"
    /\ \E i \in DOMAIN students :
          students[i].status = "Accepted" /\ students[i].score # NoScore
    /\ \E i \in DOMAIN students :
          /\ students[i].email = resp.form[1]
          /\ students[i].status = "Pending"
          /\ students[i].score = NoScore

\* C14 (as claimed): when assign_and_email_all completes with mail credentials
\* and a non-empty global link configured, every Accepted student has a test
\* link, students that already had a link keep it, and no Pending or Denied
\* student's test_link is changed.
C14_AllAcceptedGetLink ==
    [][(/\ Handled("assign_and_email_all")
        /\ resp'.location = "admin_dashboard")
       => /\ DOMAIN students' = DOMAIN students
          /\ \A i \in DOMAIN students :
                /\ students'[i].status = "Accepted"
                      => students'[i].test_link \notin {None, ""}
                /\ students[i].test_link \notin {None, ""}
                      => students'[i].test_link = students[i].test_link
                /\ students[i].status # "Accepted"
                      => students'[i].test_link = students[i].test_link]_vars

\* C15: a public register request, GET or POST, for a contest that is not
\* active creates no Student record and redirects with the error
\* 'Registration for this contest is closed.'
C15_ClosedContestRefuses ==
    [][(/\ Handled("register")
        /\ resp'.id \in DOMAIN contests
        /\ ~contests[resp'.id].is_active)
       => /\ students' = students
          /\ resp'.status = 302
          /\ resp'.flash_cat = "error"
          /\ resp'.flash = "Registration for this contest is closed."]_vars

\* C15 witness: a registration POST was refused for a closed contest that
\* already has a student, with an email not yet registered for it.
C15_Witness ==
    /\ resp.route = "register"
    /\ resp.method = "POST"
    /\ resp.flash = "Registration for this contest is closed."
    /\ resp.id \in DOMAIN contests
    /\ ~contests[resp.id].is_active
    /\ \E i \in DOMAIN students : students[i].contest_id = resp.id
    /\ \A i \in DOMAIN students :
          ~(students[i].contest_id = resp.id /\ students[i].email = resp.form[1])

\* C16: for an admin session, admin_delete_admin with the session's own
\* admin_id leaves the Admin table unchanged and reports 'You cannot delete
\* your own account.'; with a different existing admin_id it deletes exactly
\* that Admin record.
C16_NoSelfDelete ==
    [][(/\ Handled("admin_delete_admin")
        /\ "admin_id" \in DOMAIN session[resp'.client])
       => IF resp'.id = session[resp'.client]["admin_id"]
          THEN /\ admins' = admins
               /\ resp'.flash_cat = "error"
               /\ resp'.flash = "You cannot delete your own account."
          ELSE resp'.id \in DOMAIN admins
               => /\ DOMAIN admins' = DOMAIN admins \ {resp'.id}
                  /\ \A i \in DOMAIN admins' : admins'[i] = admins[i]]_vars

\* C16 witness: an admin asked to delete their own account, which exists next
\* to another one, and was refused.
C16_Witness ==
    /\ resp.route = "admin_delete_admin"
    /\ resp.flash = "You cannot delete your own account."
    /\ "admin_id" \in DOMAIN session[resp.client]
    /\ resp.id = session[resp.client]["admin_id"]
    /\ resp.id \in DOMAIN admins
    /\ Cardinality(DOMAIN admins) = 2

\* The attempt count on record for an IP in the failed-attempt table.
AttemptsOf(table, ip) == IF ip \in DOMAIN table THEN table[ip].attempts ELSE 0

\* The credentials of a login POST do not match an account.
WrongCredentials(form) ==
    \A i \in DOMAIN admins :
        ~(admins[i].username = form[2] /\ admins[i].password_hash = <<"pbkdf2", form[3]>>)

\* C17 (as claimed): a failed admin login from an IP that is not locked out
\* puts that IP's counter at the previous count plus 1 with the current time,
\* and re-renders the login page with 'Invalid username or password.'
C17_FailedLoginRecorded ==
    [][(/\ Handled("admin_login")
        /\ resp'.method = "POST"
        /\ resp'.form[1] = "login"
        /\ "admin_id" \notin DOMAIN session[resp'.client]
        /\ AttemptsOf(failed_login_attempts, resp'.client) < MAX_LOGIN_ATTEMPTS
        /\ WrongCredentials(resp'.form))
       => /\ resp'.client \in DOMAIN failed_login_attempts'
          /\ failed_login_attempts'[resp'.client] =
                [attempts |-> AttemptsOf(failed_login_attempts, resp'.client) + 1,
                 timestamp |-> now]
          /\ resp'.status = 200
          /\ resp'.flash = "Invalid username or password."]_vars

\* C18 (as claimed): a login-route request from an IP with 5 or more failures,
\* arriving 300 seconds or more after the last of them, is not treated as
\* locked out: the old count is gone and the credentials are checked as for
\* any request, so a login with a wrong password is answered with the login
\* page and counts as the IP's first failure, and one with the right password
\* logs in and leaves no entry.
C18_LockoutExpires ==
    [][(/\ Handled("admin_login")
        /\ "admin_id" \notin DOMAIN session[resp'.client]
        /\ resp'.client \in DOMAIN security_log
        /\ security_log[resp'.client].failed >= MAX_LOGIN_ATTEMPTS
        /\ now - security_log[resp'.client].last >= LOGIN_LOCKOUT_TIME
        /\ resp'.method = "POST"
        /\ resp'.form[1] = "login")
       => IF WrongCredentials(resp'.form)
          THEN /\ resp'.status = 200
               /\ resp'.flash = "Invalid username or password."
               /\ AttemptsOf(failed_login_attempts', resp'.client) = 1
          ELSE /\ "admin_id" \in DOMAIN session'[resp'.client]
               /\ resp'.client \notin DOMAIN failed_login_attempts']_vars

\* C20 (as claimed): a registration attempt rejected for its wrong, non-empty
\* security code adds one to the client IP's failed-attempt count; one
\* rejected for any other reason leaves the failed-attempt table as it was.
C20_WrongCodeCounts ==
    [][(/\ Handled("admin_login")
        /\ resp'.method = "POST"
        /\ resp'.form[1] = "register"
        /\ "admin_id" \notin DOMAIN session[resp'.client]
        /\ admins' = admins)
       => IF /\ resp'.form[2] # "" /\ resp'.form[3] # ""
             /\ resp'.form[3] = resp'.form[4]
             /\ Len(resp'.form[3]) >= 6
             /\ \A i \in DOMAIN admins : admins[i].username # resp'.form[2]
             /\ resp'.form[5] \notin {"", ADMIN_REGISTRATION_CODE}
          THEN AttemptsOf(failed_login_attempts', resp'.client)
                  = AttemptsOf(failed_login_attempts, resp'.client) + 1
          ELSE failed_login_attempts' = failed_login_attempts]_vars

C22_FiveFailuresLockOut ==
    [][/\ \A ip \in DOMAIN failed_login_attempts \ DOMAIN failed_login_attempts' :
             \/ /\ resp'.route = "admin_login"
                /\ resp'.client = ip
                /\ "admin_id" \in DOMAIN session'[ip]
             \/ /\ failed_login_attempts[ip].attempts >= MAX_LOGIN_ATTEMPTS
                /\ now - failed_login_attempts[ip].timestamp >= LOGIN_LOCKOUT_TIME
       /\ (/\ Handled("admin_login")
           /\ "admin_id" \notin DOMAIN session[resp'.client]
           /\ resp'.client \in DOMAIN security_log
           /\ security_log[resp'.client].failed >= MAX_LOGIN_ATTEMPTS
           /\ now - security_log[resp'.client].last < LOGIN_LOCKOUT_TIME)
          => /\ resp'.status = 200
             /\ resp'.flash = "Too many failed attempts."]_vars

\* C23 (as claimed): in every reachable state every session that carries
\* admin_id, and so passes the admin gate, names an Admin record that exists.
C23_SessionsReferToAdmins ==
    \A c \in Clients :
        AdminGate(c) => session[c]["admin_id"] \in DOMAIN admins

\* The routes whose handlers begin with the admin gate.
GatedRoutes ==
    {"admin_manage_contests", "admin_edit_contest", "admin_toggle_contest",
     "admin_toggle_publish", "admin_delete_contest", "admin_delete_admin",
     "admin_delete_student", "admin_settings", "admin_email_settings",
     "assign_and_email_all", "admin_manual_registration", "admin_edit_student",
     "update_status", "admin_export_pdf", "admin_export_csv", "update_test_info"}

\* C24: a logout leaves the session with neither admin_id nor student_email;
\* a session gets admin_id only in a login at /admin/login; and a request to
\* an admin-gated route from a session without admin_id is redirected to the
\* admin login and changes nothing in the store.
C24_LogoutEndsBothRoles ==
    [][/\ Handled("logout")
          => /\ "admin_id" \notin DOMAIN session'[resp'.client]
             /\ "student_email" \notin DOMAIN session'[resp'.client]
       /\ \A c \in Clients :
             ("admin_id" \notin DOMAIN session[c] /\ "admin_id" \in DOMAIN session'[c])
             => /\ resp'.route = "admin_login"
                /\ resp'.client = c
                /\ resp'.form[1] = "login"
       /\ (/\ HandledAny
           /\ resp'.route \in GatedRoutes
           /\ "admin_id" \notin DOMAIN session[resp'.client])
          => /\ resp'.status = 302
             /\ resp'.location = "admin_login"
             /\ store' = store
             /\ session' = session]_vars

\* C24 witness: the browser from which the contest was created has logged
\* out since, and its request to delete the contest, which has a student, was
\* sent to the admin login.
C24_Witness ==
    /\ resp.route = "admin_delete_contest"
    /\ resp.client = Operator
    /\ resp.location = "admin_login"
    /\ session[Operator] = <<>>
    /\ resp.id \in DOMAIN contests
    /\ \E i \in DOMAIN students : students[i].contest_id = resp.id

====
